---- MODULE Spec2Model ----
(***************************************************************************)
(* GltfToCocosMesh: the Geometry data model (src/src/Geometry.ts) and the  *)
(* CocosMesh interleaved buffer decoder (src/unnamed/part_000).            *)
(*                                                                         *)
(* Five specifications share the variables below:                          *)
(*   SpecGeometry  creatFromGLTF, then getAttributeAccessor calls          *)
(*   SpecBounds    creatFromGLTF, then getBoundPositions                   *)
(*   SpecNormals   computeNormals, one triangle per step                   *)
(*   SpecTangents  computeTangents, one triangle per step                  *)
(*   SpecMesh      the CocosMesh constructor, one attribute per step       *)
(***************************************************************************)
EXTENDS Integers, Sequences, FiniteSets, TLC

VARIABLES
    gltf,           \* the GLTF document handed to creatFromGLTF
    geometry,       \* the Geometry instance: Null before construction
    lastCall,       \* the last operation: its arguments and its outcome
    normalRuns,     \* per primitive: computeNormals invocations / completions
    tangentRuns,    \* per primitive: computeTangents invocations / completions
    earlier,        \* observer: one earlier successful getAttributeAccessor call
    cn,             \* the frame of a computeNormals call
    ct,             \* the frame of a computeTangents call
    cm              \* the frame of the CocosMesh constructor

vars == <<gltf, geometry, lastCall, normalRuns, tangentRuns, earlier, cn, ct, cm>>

----------------------------------------------------------------------------
(* JavaScript values *)

Undefined == [undefined |-> TRUE]

Null == [null |-> TRUE]

\* x == null in JavaScript: true of null and of undefined
IsNullish(x) == x = Null \/ x = Undefined

Idle == [pc |-> "idle"]

----------------------------------------------------------------------------
(* The members of AttributeName that Geometry.ts names; each stands for    *)
(* itself, the enum's values being those of ./Cocos.                       *)

ATTR_POSITION == "ATTR_POSITION"

ATTR_NORMAL == "ATTR_NORMAL"

ATTR_TANGENT == "ATTR_TANGENT"

ATTR_TEX_COORD == "ATTR_TEX_COORD"

ATTR_TEX_COORD1 == "ATTR_TEX_COORD1"

ATTR_TEX_COORD2 == "ATTR_TEX_COORD2"

ATTR_COLOR == "ATTR_COLOR"

ATTR_JOINTS == "ATTR_JOINTS"

ATTR_WEIGHTS == "ATTR_WEIGHTS"

AttributeName ==
    { ATTR_POSITION, ATTR_NORMAL, ATTR_TANGENT, ATTR_TEX_COORD, ATTR_TEX_COORD1,
      ATTR_TEX_COORD2, ATTR_COLOR, ATTR_JOINTS, ATTR_WEIGHTS }

\* the keys of gltfAttributeMaps
GltfPrimitiveKeys ==
    { "POSITION", "NORMAL", "TANGENT", "TEXCOORD_0", "TEXCOORD_1", "TEXCOORD_2",
      "COLOR_0", "JOINTS_0", "WEIGHTS_0" }

\* gltfAttributeMaps[key]: a key the table does not hold reads as undefined
gltfAttributeMaps(key) ==
    CASE key = "POSITION" -> ATTR_POSITION
      [] key = "NORMAL" -> ATTR_NORMAL
      [] key = "TANGENT" -> ATTR_TANGENT
      [] key = "TEXCOORD_0" -> ATTR_TEX_COORD
      [] key = "TEXCOORD_1" -> ATTR_TEX_COORD1
      [] key = "TEXCOORD_2" -> ATTR_TEX_COORD2
      [] key = "COLOR_0" -> ATTR_COLOR
      [] key = "JOINTS_0" -> ATTR_JOINTS
      [] key = "WEIGHTS_0" -> ATTR_WEIGHTS
      [] OTHER -> "undefined"

----------------------------------------------------------------------------
(* Sequence helpers *)

Range(s) == { s[i] : i \in 1..Len(s) }

RECURSIVE SeqSum(_)
SeqSum(s) == IF s = <<>> THEN 0 ELSE Head(s) + SeqSum(Tail(s))

\* Array.prototype.find(x => x.name == name): the first match, or undefined
find(attributeDatas, name) ==
    LET hits == { i \in 1..Len(attributeDatas) : attributeDatas[i].name = name }
    IN  IF hits = {} THEN Undefined
        ELSE attributeDatas[CHOOSE i \in hits : \A j \in hits : i <= j]

\* Array.prototype.push
push(attributeDatas, attributeData) == Append(attributeDatas, attributeData)

----------------------------------------------------------------------------
(* creatFromGLTF *)

\* glTFLoaderBasic.accessorToTypeArray: a typed array of the accessor's
\* elements; an absent accessor (a primitive without indices) gives undefined
accessorToTypeArray(accessor) ==
    IF IsNullish(accessor) THEN Undefined
    ELSE [id |-> accessor.ident, length |-> Len(accessor.elems), elems |-> accessor.elems]

\* the body of the loop over mesh.primitives: one PrimitiveData
PrimitiveDataOf(primitive, joints) ==
    [ attributeDatas |->
          [ k \in 1..Len(primitive.attributes) |->
              [ name |-> gltfAttributeMaps(primitive.attributes[k].key),
                data |-> accessorToTypeArray(primitive.attributes[k].accessor) ] ],
      indices |-> accessorToTypeArray(primitive.indices),
      joints |-> joints,
      boundingBox |-> primitive.boundingBox ]

\* creatFromGLTF(gltf): [threw, value].  A JavaScript array that may be null
\* (gltf.skins, joints) is [items |-> <<...>>] or Null.
creatFromGLTFResult(g) ==
    IF Len(g.meshes) > 1
    THEN [threw |-> "Multiple Mesh is not supported.", value |-> Null]
    ELSE LET mesh == g.meshes[1]
             joints == IF IsNullish(g.skins) \/ Len(g.skins.items) = 0 THEN Null
                       ELSE [ items |-> [ j \in 1..Len(g.skins.items[1].joints) |->
                                            g.skins.items[1].joints[j].nodeID ] ]
         IN  [ threw |-> "",
               value |-> [ primitiveDatas |->
                   [ p \in 1..Len(mesh.primitives) |->
                       PrimitiveDataOf(mesh.primitives[p], joints) ] ] ]

----------------------------------------------------------------------------
(* getAttributeAccessor.  A Geometry state st is                           *)
(* [primitiveDatas, normalRuns, tangentRuns]; a call returns               *)
(* [threw, value, st]: threw is "" when the call returns value.            *)

TypeError == "TypeError"

Unsupported == "is not supported."

Returned(value, st) == [threw |-> "", value |-> value, st |-> st]

Threw(error, st) == [threw |-> error, value |-> Undefined, st |-> st]

Started(runs, p) == [runs EXCEPT ![p].started = @ + 1]

Completed(runs, p) == [runs EXCEPT ![p].completed = @ + 1]

\* positionArray.length / 3
vertexCountOf(primitiveData) ==
    find(primitiveData.attributeDatas, ATTR_POSITION).data.length \div 3

\* computeNormals(primitiveData) throws a TypeError where it reads .data of a
\* Position entry find did not return, or .length of absent indices
computeNormalsThrows(primitiveData) ==
    \/ find(primitiveData.attributeDatas, ATTR_POSITION) = Undefined
    \/ IsNullish(primitiveData.indices)

\* computeTangents(primitiveData, normalArray) throws a TypeError where it
\* reads .data of an absent Position or TexCoord entry, or .length of absent
\* indices
computeTangentsThrows(primitiveData) ==
    \/ find(primitiveData.attributeDatas, ATTR_POSITION) = Undefined
    \/ find(primitiveData.attributeDatas, ATTR_TEX_COORD) = Undefined
    \/ IsNullish(primitiveData.indices)

\* createNormalTypeArray(indexPrimitive): a new Float32Array of 3 floats per
\* vertex (its contents are what SpecNormals computes)
createNormalTypeArray(st, p) ==
    LET primitiveData == st.primitiveDatas[p]
        st1 == [st EXCEPT !.normalRuns = Started(@, p)]
    IN  IF computeNormalsThrows(primitiveData) THEN Threw(TypeError, st1)
        ELSE Returned(
                 [ id |-> [origin |-> "createNormalTypeArray", prim |-> p,
                           serial |-> st1.normalRuns[p].started],
                   length |-> vertexCountOf(primitiveData) * 3 ],
                 [st1 EXCEPT !.normalRuns = Completed(@, p)])

\* createTangentAccessor(indexPrimitive, normalArray): a new Float32Array of
\* 4 floats per vertex (its contents are what SpecTangents computes)
createTangentAccessor(st, p, normalArray) ==
    LET primitiveData == st.primitiveDatas[p]
        st1 == [st EXCEPT !.tangentRuns = Started(@, p)]
    IN  IF computeTangentsThrows(primitiveData) THEN Threw(TypeError, st1)
        ELSE Returned(
                 [ id |-> [origin |-> "createTangentAccessor", prim |-> p,
                           serial |-> st1.tangentRuns[p].started],
                   length |-> vertexCountOf(primitiveData) * 4 ],
                 [st1 EXCEPT !.tangentRuns = Completed(@, p)])

\* the computed array is returned and never stored
pushForgotten(st, p, attributeData) == st

\* this.primitiveDatas[indexPrimitive].attributeDatas.push(attributeData)
pushAttributeData(st, p, attributeData) ==
    [st EXCEPT !.primitiveDatas[p].attributeDatas = push(@, attributeData)]

\* find(...)?.data: an absent Normal reads as undefined and does not throw
NormalDataOfOptional(attributeDatas) ==
    LET attributeData == find(attributeDatas, ATTR_NORMAL)
    IN  [ threw |-> "",
          typeArray |-> IF attributeData = Undefined THEN Undefined
                        ELSE attributeData.data ]

\* attributeDatas.find(x => x.name == ATTR_NORMAL).data (line 84): reading
\* .data of undefined throws a TypeError
NormalDataOf(attributeDatas) ==
    LET attributeData == find(attributeDatas, ATTR_NORMAL)
    IN  IF attributeData = Undefined
        THEN [threw |-> TypeError, typeArray |-> Undefined]
        ELSE [threw |-> "", typeArray |-> attributeData.data]

\* the presence check dropped: every request is taken for an absent attribute
lookupNothing(st, indexPrimitive, attributeName) == Undefined

\* this.primitiveDatas[indexPrimitive].attributeDatas.find(x => x.name ==
\* attributeName) (line 74)
lookup(st, indexPrimitive, attributeName) ==
    find(st.primitiveDatas[indexPrimitive].attributeDatas, attributeName)

RECURSIVE getAttributeAccessor(_, _, _)

\* case AttributeName.ATTR_NORMAL (lines 78-82)
synthesizeNormal(st, p) ==
    LET made == createNormalTypeArray(st, p)
    IN  IF made.threw # "" THEN made
        ELSE Returned(made.value,
                 pushAttributeData(made.st, p, [name |-> ATTR_NORMAL, data |-> made.value]))

\* case AttributeName.ATTR_TANGENT (lines 83-91)
synthesizeTangent(st, p) ==
    LET looked == NormalDataOf(st.primitiveDatas[p].attributeDatas)
    IN  IF looked.threw # "" THEN Threw(looked.threw, st)
        ELSE
        LET normal == IF IsNullish(looked.typeArray)
                      THEN getAttributeAccessor(st, p, ATTR_NORMAL)
                      ELSE Returned(looked.typeArray, st)
        IN  IF normal.threw # "" THEN normal
            ELSE
            LET made == createTangentAccessor(normal.st, p, normal.value)
            IN  IF made.threw # "" THEN made
                ELSE Returned(made.value,
                         pushAttributeData(made.st, p,
                             [name |-> ATTR_TANGENT, data |-> made.value]))

\* the switch without its Normal case: a Normal request falls to the default
synthesizeTangentOnly(st, p, attributeName) ==
    IF attributeName = ATTR_TANGENT THEN synthesizeTangent(st, p)
    ELSE Threw(Unsupported, st)

\* switch (attributeName) (lines 77-94)
synthesize(st, p, attributeName) ==
    IF attributeName = ATTR_NORMAL THEN synthesizeNormal(st, p)
    ELSE IF attributeName = ATTR_TANGENT THEN synthesizeTangent(st, p)
    ELSE Threw(Unsupported, st)

getAttributeAccessor(st, indexPrimitive, attributeName) ==
    LET attributeData == lookup(st, indexPrimitive, attributeName)
    IN  IF attributeData # Undefined THEN Returned(attributeData.data, st)
        ELSE synthesize(st, indexPrimitive, attributeName)

----------------------------------------------------------------------------
(* SpecGeometry *)

\* how many times the model lets one generator be invoked on one primitive
MaxRuns == 2

KeyOrder ==
    << "POSITION", "NORMAL", "TANGENT", "TEXCOORD_0", "TEXCOORD_1", "TEXCOORD_2",
       "COLOR_0", "JOINTS_0", "WEIGHTS_0", "TEXCOORD_3", "_BATCHID" >>

CoreKeys == { "POSITION", "NORMAL", "TANGENT", "TEXCOORD_0" }

\* keys beside the core ones: none, every other recognized key, keys that
\* gltfAttributeMaps does not hold
ExtraKeySets ==
    { {}, { "TEXCOORD_1", "TEXCOORD_2", "COLOR_0", "JOINTS_0", "WEIGHTS_0" },
      { "TEXCOORD_3", "_BATCHID" }, { "COLOR_0", "_BATCHID" } }

\* floats per vertex of a source attribute
ComponentsOf(key) ==
    CASE key \in { "POSITION", "NORMAL" } -> 3
      [] key \in { "TEXCOORD_0", "TEXCOORD_1", "TEXCOORD_2", "TEXCOORD_3" } -> 2
      [] key = "_BATCHID" -> 1
      [] OTHER -> 4

ZeroElems(n) == [i \in 1..n |-> 0]

\* a primitive of vertexCount vertices holding the keys of keySet; slot tells
\* its accessors from those of the mesh's other primitives
SourcePrimitive(slot, keySet, indexed, vertexCount) ==
    LET keys == SelectSeq(KeyOrder, LAMBDA k : k \in keySet)
    IN  [ attributes |->
              [ k \in 1..Len(keys) |->
                  [ key |-> keys[k],
                    accessor |-> [ ident |-> [origin |-> "gltf", prim |-> slot,
                                             key |-> keys[k]],
                                   elems |-> ZeroElems(vertexCount * ComponentsOf(keys[k])) ] ] ],
          indices |-> IF indexed
                      THEN [ ident |-> [origin |-> "gltf", prim |-> slot, key |-> "indices"],
                             elems |-> <<0, 1, 2>> ]
                      ELSE Undefined,
          boundingBox |-> Undefined ]

FirstPrimitives ==
    { SourcePrimitive(1, core \cup extra, indexed, 3) :
        core \in SUBSET CoreKeys, extra \in ExtraKeySets, indexed \in BOOLEAN }

\* the first primitive of a mesh of two
PairedPrimitives ==
    { SourcePrimitive(1, core, indexed, 3) :
        core \in { { "POSITION" }, { "POSITION", "TEXCOORD_0" },
                   { "POSITION", "NORMAL", "TEXCOORD_0" } },
        indexed \in BOOLEAN }

SecondPrimitives ==
    { SourcePrimitive(2, { "POSITION", "NORMAL", "TEXCOORD_0" }, TRUE, 4),
      SourcePrimitive(2, { "NORMAL", "TEXCOORD_0", "_BATCHID" }, FALSE, 4) }

\* single-mesh documents without skins
GeometrySources ==
    { [meshes |-> << [primitives |-> prims] >>, skins |-> Null] :
        prims \in { <<>> } \cup { <<a>> : a \in FirstPrimitives }
                    \cup { <<a, b>> : a \in PairedPrimitives, b \in SecondPrimitives } }

\* documents with skins (the first skin's joints are kept), some of two meshes
SkinnedSources ==
    { [meshes |-> meshes, skins |-> skins] :
        meshes \in { << [primitives |-> <<a>>] >> : a \in SecondPrimitives }
                     \cup { << [primitives |-> <<a>>], [primitives |-> <<>>] >> :
                               a \in SecondPrimitives },
        skins \in { [items |-> <<>>],
                    [items |-> << [joints |-> << [nodeID |-> 4], [nodeID |-> 7] >>] >>] } }

NoRuns == [started |-> 0, completed |-> 0]

InitGeometry ==
    /\ \/ gltf \in GeometrySources
       \/ gltf \in SkinnedSources
    /\ geometry = Null
    /\ lastCall = [op |-> "none"]
    /\ normalRuns = <<>>
    /\ tangentRuns = <<>>
    /\ earlier = Null
    /\ cn = Idle
    /\ ct = Idle
    /\ cm = Idle

\* Geometry.creatFromGLTF(gltf)
creatFromGLTF ==
    /\ lastCall.op = "none"
    /\ LET r == creatFromGLTFResult(gltf)
       IN  /\ geometry' = r.value
           /\ lastCall' = [op |-> "creatFromGLTF", threw |-> r.threw]
           /\ normalRuns' = IF r.threw = ""
                            THEN [p \in 1..Len(r.value.primitiveDatas) |-> NoRuns]
                            ELSE <<>>
           /\ tangentRuns' = normalRuns'
    /\ UNCHANGED <<gltf, earlier, cn, ct, cm>>

\* geometry.getAttributeAccessor(indexPrimitive, attributeName), by any caller.
\* The call is synchronous: find, the generators and push run to the end
\* before any other call starts.
CallGetAttributeAccessor(indexPrimitive, attributeName) ==
    /\ geometry # Null
    /\ LET r == getAttributeAccessor(
                    [primitiveDatas |-> geometry.primitiveDatas,
                     normalRuns |-> normalRuns, tangentRuns |-> tangentRuns],
                    indexPrimitive, attributeName)
       IN  /\ r.st.normalRuns[indexPrimitive].started <= MaxRuns
           /\ r.st.tangentRuns[indexPrimitive].started <= MaxRuns
           /\ geometry' = [geometry EXCEPT !.primitiveDatas = r.st.primitiveDatas]
           /\ normalRuns' = r.st.normalRuns
           /\ tangentRuns' = r.st.tangentRuns
           /\ lastCall' = [ op |-> "getAttributeAccessor",
                            indexPrimitive |-> indexPrimitive,
                            attributeName |-> attributeName,
                            found |-> lookup([primitiveDatas |-> geometry.primitiveDatas],
                                             indexPrimitive, attributeName) # Undefined,
                            threw |-> r.threw, value |-> r.value ]
           /\ \/ UNCHANGED earlier
              \/ /\ earlier = Null
                 /\ r.threw = ""
                 /\ earlier' = [ indexPrimitive |-> indexPrimitive,
                                 attributeName |-> attributeName, value |-> r.value ]
    /\ UNCHANGED <<gltf, cn, ct, cm>>

NextGeometry ==
    \/ creatFromGLTF
    \/ /\ geometry # Null
       /\ \E indexPrimitive \in 1..Len(geometry.primitiveDatas), attributeName \in AttributeName :
              CallGetAttributeAccessor(indexPrimitive, attributeName)

SpecGeometry == InitGeometry /\ [][NextGeometry]_vars

----------------------------------------------------------------------------
(* Claims checked under SpecGeometry *)

IsCall(call) == call.op = "getAttributeAccessor"

\* the names of an attribute list, in order
NamesOf(attributeDatas) == [i \in 1..Len(attributeDatas) |-> attributeDatas[i].name]

\* how many entries of an attribute list carry the name
CountOf(attributeDatas, name) ==
    Cardinality({ i \in 1..Len(attributeDatas) : attributeDatas[i].name = name })

\* the data of the first entry carrying the name
FirstDataOf(attributeDatas, name) ==
    attributeDatas[CHOOSE i \in 1..Len(attributeDatas) :
        /\ attributeDatas[i].name = name
        /\ \A j \in 1..(i - 1) : attributeDatas[j].name # name].data

\* C1: on a primitive with Position, TexCoord0 and indices but neither Normal
\* nor Tangent, getAttributeAccessor(p, Tangent) returns the tangent array
\* after synthesizing Normal: the call appends a Normal entry and then a
\* Tangent entry, running each generator once.
C1_TangentSynthesizesNormal ==
    [][ (IsCall(lastCall') /\ lastCall'.attributeName = ATTR_TANGENT)
        => LET p == lastCall'.indexPrimitive
               before == geometry.primitiveDatas[p]
               after == geometry'.primitiveDatas[p].attributeDatas
               n == Len(before.attributeDatas)
           IN  ( /\ CountOf(before.attributeDatas, ATTR_POSITION) > 0
                 /\ CountOf(before.attributeDatas, ATTR_TEX_COORD) > 0
                 /\ ~IsNullish(before.indices)
                 /\ CountOf(before.attributeDatas, ATTR_NORMAL) = 0
                 /\ CountOf(before.attributeDatas, ATTR_TANGENT) = 0 )
               => /\ lastCall'.threw = ""
                  /\ Len(after) = n + 2
                  /\ SubSeq(after, 1, n) = before.attributeDatas
                  /\ after[n + 1].name = ATTR_NORMAL
                  /\ after[n + 2].name = ATTR_TANGENT
                  /\ lastCall'.value = after[n + 2].data
                  /\ normalRuns'[p].completed = normalRuns[p].completed + 1
                  /\ tangentRuns'[p].completed = tangentRuns[p].completed + 1 ]_vars

\* a later call repeats the pair of the earlier successful call the observer
\* holds
RepeatsEarlier(call) ==
    /\ earlier # Null
    /\ IsCall(call)
    /\ call.indexPrimitive = earlier.indexPrimitive
    /\ call.attributeName = earlier.attributeName
    /\ call.threw = ""

\* C2 as stated: each generator runs (is invoked) at most once per primitive,
\* and a call for a tag an earlier successful call resolved returns that
\* call's array.
C2_GeneratorsRunAtMostOnce ==
    /\ \A p \in DOMAIN normalRuns :
           normalRuns[p].started <= 1 /\ tangentRuns[p].started <= 1
    /\ RepeatsEarlier(lastCall) => lastCall.value.id = earlier.value.id

\* C2 as amended: each generator runs to completion at most once per
\* primitive, and a call for a tag an earlier successful call resolved
\* returns that call's array without invoking a generator.
C2_GeneratorsCompleteAtMostOnce ==
    [][ /\ \A p \in DOMAIN normalRuns' :
               normalRuns'[p].completed <= 1 /\ tangentRuns'[p].completed <= 1
        /\ (earlier # Null /\ RepeatsEarlier(lastCall)')
           => /\ lastCall'.value = earlier.value
              /\ normalRuns' = normalRuns
              /\ tangentRuns' = tangentRuns ]_vars

\* a second request for Normal is served the array the first one computed
C2_Witness ==
    /\ RepeatsEarlier(lastCall)
    /\ lastCall.found
    /\ lastCall.value.id.origin = "createNormalTypeArray"
    /\ normalRuns[lastCall.indexPrimitive] = [started |-> 1, completed |-> 1]

\* C3: each primitive's attribute list holds at most one entry per semantic
\* tag, in every state creatFromGLTF and any sequence of getAttributeAccessor
\* calls (each one uninterrupted step) can reach.
C3_AtMostOneEntryPerTag ==
    geometry # Null
    => \A p \in 1..Len(geometry.primitiveDatas), name \in AttributeName :
           CountOf(geometry.primitiveDatas[p].attributeDatas, name) <= 1

\* a computed Tangent has been appended and a later request found it
C3_Witness ==
    /\ IsCall(lastCall)
    /\ lastCall.found
    /\ lastCall.attributeName = ATTR_TANGENT
    /\ lastCall.value.id.origin = "createTangentAccessor"

\* C4: a call fails with the "not supported" error exactly when the tag is
\* absent from the primitive's list and is neither Normal nor Tangent; a call
\* for a present tag returns the stored array and changes nothing.
C4_UnsupportedExactlyWhenAbsentAndNotSynthesizable ==
    [][ IsCall(lastCall')
        => LET p == lastCall'.indexPrimitive
               name == lastCall'.attributeName
               before == geometry.primitiveDatas[p].attributeDatas
               present == CountOf(before, name) > 0
           IN  /\ lastCall'.threw = Unsupported
                  <=> (~present /\ name \notin { ATTR_NORMAL, ATTR_TANGENT })
               /\ present => /\ lastCall'.threw = ""
                             /\ lastCall'.value = FirstDataOf(before, name)
                             /\ geometry' = geometry ]_vars

\* a request for an absent tag other than Normal and Tangent has failed
C4_Witness ==
    /\ IsCall(lastCall)
    /\ lastCall.threw = Unsupported
    /\ ~lastCall.found
    /\ lastCall.attributeName = ATTR_TEX_COORD

\* C5: a call that fails leaves every primitive's attribute list as it was.
C5_FailedCallLeavesListsUnchanged ==
    [][ (IsCall(lastCall') /\ lastCall'.threw # "")
        => geometry'.primitiveDatas = geometry.primitiveDatas ]_vars

\* a Tangent request has failed on a primitive with Position and indices but
\* neither Normal nor TexCoord0
C5_Witness ==
    /\ IsCall(lastCall)
    /\ lastCall.attributeName = ATTR_TANGENT
    /\ lastCall.threw = TypeError
    /\ LET primitiveData == geometry.primitiveDatas[lastCall.indexPrimitive]
       IN  /\ CountOf(primitiveData.attributeDatas, ATTR_POSITION) = 1
           /\ CountOf(primitiveData.attributeDatas, ATTR_TEX_COORD) = 0
           /\ CountOf(primitiveData.attributeDatas, ATTR_NORMAL) = 0
           /\ ~IsNullish(primitiveData.indices)

\* C6: right after creatFromGLTF, each primitive's attribute list holds
\* exactly one entry, with the mapped tag, for every recognized key of the
\* source primitive, and no entry for any other key.
C6_OnlyRecognizedKeysStored ==
    (lastCall.op = "creatFromGLTF" /\ lastCall.threw = "")
    => \A p \in 1..Len(geometry.primitiveDatas) :
           LET attributes == gltf.meshes[1].primitives[p].attributes
               keys == { attributes[k].key : k \in 1..Len(attributes) }
               attributeDatas == geometry.primitiveDatas[p].attributeDatas
           IN  /\ \A key \in keys \cap GltfPrimitiveKeys :
                      CountOf(attributeDatas, gltfAttributeMaps(key)) = 1
               /\ Len(attributeDatas) = Cardinality(keys \cap GltfPrimitiveKeys)

----------------------------------------------------------------------------
(* Floats.  The model's numbers are small integers, which Float32Array     *)
(* holds exactly; NaN and the infinities are integers outside their range. *)

\* what a Float32Array holds after undefined is stored into it
NaN == -99999999

POSITIVE_INFINITY == 1000000

NEGATIVE_INFINITY == -1000000

\* Math.min
MathMin(a, b) == IF a = NaN \/ b = NaN THEN NaN ELSE IF a < b THEN a ELSE b

\* Math.max
MathMax(a, b) == IF a = NaN \/ b = NaN THEN NaN ELSE IF a > b THEN a ELSE b

\* vec3.min(out, a, b)
vec3min(a, b) == [k \in 1..3 |-> MathMin(a[k], b[k])]

\* vec3.max(out, a, b)
vec3max(a, b) == [k \in 1..3 |-> MathMax(a[k], b[k])]

\* array[i] stored into a Float32Array: an index past the end reads undefined
elementAt(array, i) ==
    IF 0 <= i /\ i < array.length THEN array.elems[i + 1] ELSE NaN

\* Geometry.createVector3(array, index, out): index *= 3, then three reads
createVector3(array, index) ==
    << elementAt(array, index * 3), elementAt(array, index * 3 + 1),
       elementAt(array, index * 3 + 2) >>

----------------------------------------------------------------------------
(* getBoundPositions *)

\* for (let i = 0; i < typeArray.length; i += 3): createVector3 is handed the
\* element index i
RECURSIVE scanPositions(_, _, _)
scanPositions(typeArray, i, bound) ==
    IF i < typeArray.length
    THEN LET position == createVector3(typeArray, i)
         IN  scanPositions(typeArray, i + 3,
                 [ boundMin |-> vec3min(bound.boundMin, position),
                   boundMax |-> vec3max(bound.boundMax, position) ])
    ELSE bound

\* the loop over this.primitiveDatas, from primitive k on
RECURSIVE foldPrimitives(_, _, _)
foldPrimitives(primitiveDatas, k, bound) ==
    IF k > Len(primitiveDatas) THEN [threw |-> "", value |-> bound]
    ELSE LET primitive == primitiveDatas[k]
         IN  IF ~IsNullish(primitive.boundingBox)
             THEN foldPrimitives(primitiveDatas, k + 1,
                      [ boundMin |-> vec3min(bound.boundMin, primitive.boundingBox.min),
                        boundMax |-> vec3max(bound.boundMax, primitive.boundingBox.max) ])
             ELSE LET attributeData == find(primitive.attributeDatas, ATTR_POSITION)
                  IN  IF attributeData = Undefined
                      THEN [threw |-> TypeError, value |-> Undefined]
                      ELSE foldPrimitives(primitiveDatas, k + 1,
                               scanPositions(attributeData.data, 0, bound))

\* getBoundPositions(): [threw, value]
getBoundPositions(primitiveDatas) ==
    foldPrimitives(primitiveDatas, 1,
        [ boundMin |-> <<POSITIVE_INFINITY, POSITIVE_INFINITY, POSITIVE_INFINITY>>,
          boundMax |-> <<NEGATIVE_INFINITY, NEGATIVE_INFINITY, NEGATIVE_INFINITY>> ])

----------------------------------------------------------------------------
(* SpecBounds *)

\* the most primitives of a mesh
MaxPrimitives == 2

\* position arrays: of one, two, four and no vertices
PositionChoices ==
    { <<0, 0, 0>>, <<3, -2, 1>>, <<0, 0, 0, 2, 2, 2>>,
      <<1, 1, 1, -3, 0, 4, 0, 5, -1, 2, 2, 2>>, <<>> }

BoxChoices ==
    { [min |-> <<-1, -1, -1>>, max |-> <<1, 1, 1>>],
      [min |-> <<0, 1, 2>>, max |-> <<4, 5, 6>>] }

Accessor(slot, key, elems) ==
    [ident |-> [origin |-> "gltf", prim |-> slot, key |-> key], elems |-> elems]

\* primitives with a Normal of one vertex and, where position says so, a Position
BoundsPrimitives(slot) ==
    { [ attributes |-> << [key |-> "NORMAL", accessor |-> Accessor(slot, "NORMAL", <<0, 0, 1>>)],
                          [key |-> "POSITION", accessor |-> Accessor(slot, "POSITION", elems)] >>,
        indices |-> Undefined,
        boundingBox |-> Undefined ] : elems \in PositionChoices }
    \cup
    { [ attributes |-> << [key |-> "POSITION", accessor |-> Accessor(slot, "POSITION", elems)] >>,
        indices |-> Undefined,
        boundingBox |-> box ] : elems \in { <<0, 0, 0, 2, 2, 2>>, <<7, 7, 7>> }, box \in BoxChoices }
    \cup
    { [ attributes |-> << [key |-> "NORMAL", accessor |-> Accessor(slot, "NORMAL", <<0, 0, 1>>)] >>,
        indices |-> Undefined,
        boundingBox |-> box ] : box \in BoxChoices }
    \cup
    { [ attributes |-> << [key |-> "NORMAL", accessor |-> Accessor(slot, "NORMAL", <<0, 0, 1>>)] >>,
        indices |-> Undefined,
        boundingBox |-> Undefined ] }

RECURSIVE PrimitiveLists(_)
PrimitiveLists(n) ==
    IF n = 0 THEN { <<>> }
    ELSE LET shorter == PrimitiveLists(n - 1)
         IN  shorter \cup { Append(prims, b) :
                               prims \in { q \in shorter : Len(q) = n - 1 },
                               b \in BoundsPrimitives(n) }

BoundsSources ==
    { [meshes |-> << [primitives |-> prims] >>, skins |-> Null] :
        prims \in PrimitiveLists(MaxPrimitives) }

InitBounds ==
    /\ gltf \in BoundsSources
    /\ geometry = Null
    /\ lastCall = [op |-> "none"]
    /\ normalRuns = <<>>
    /\ tangentRuns = <<>>
    /\ earlier = Null
    /\ cn = Idle
    /\ ct = Idle
    /\ cm = Idle

\* geometry.getBoundPositions()
CallGetBoundPositions ==
    /\ geometry # Null
    /\ lastCall.op = "creatFromGLTF"
    /\ LET r == getBoundPositions(geometry.primitiveDatas)
       IN  lastCall' = [op |-> "getBoundPositions", threw |-> r.threw, value |-> r.value]
    /\ UNCHANGED <<gltf, geometry, normalRuns, tangentRuns, earlier, cn, ct, cm>>

NextBounds ==
    \/ creatFromGLTF
    \/ CallGetBoundPositions

SpecBounds == InitBounds /\ [][NextBounds]_vars

----------------------------------------------------------------------------
(* Claims checked under SpecBounds *)

SetMin(S) == CHOOSE x \in S : \A y \in S : x <= y

SetMax(S) == CHOOSE x \in S : \A y \in S : x >= y

\* the vertices of a position array
VerticesOf(array) ==
    { << array.elems[3 * v + 1], array.elems[3 * v + 2], array.elems[3 * v + 3] >> :
        v \in 0..(array.length \div 3 - 1) }

\* the points a primitive contributes: the corners of its box, or else its
\* vertex positions
PointsOf(primitiveData) ==
    IF ~IsNullish(primitiveData.boundingBox)
    THEN { primitiveData.boundingBox.min, primitiveData.boundingBox.max }
    ELSE UNION { VerticesOf(primitiveData.attributeDatas[i].data) :
                   i \in { j \in 1..Len(primitiveData.attributeDatas) :
                             primitiveData.attributeDatas[j].name = ATTR_POSITION } }

HasBoxOrPosition(primitiveData) ==
    \/ ~IsNullish(primitiveData.boundingBox)
    \/ CountOf(primitiveData.attributeDatas, ATTR_POSITION) > 0

\* C7: for a geometry of at least one primitive (each with a box or a
\* Position attribute, and contributing a point at all), getBoundPositions
\* returns the component-wise minimum and maximum over the box corners of the
\* primitives with a box and the vertex positions of the others.
C7_BoundsAreMinMaxOverUnion ==
    ( /\ lastCall.op = "getBoundPositions"
      /\ Len(geometry.primitiveDatas) >= 1
      /\ \A p \in 1..Len(geometry.primitiveDatas) :
             HasBoxOrPosition(geometry.primitiveDatas[p]) )
    => LET points == UNION { PointsOf(geometry.primitiveDatas[p]) :
                               p \in 1..Len(geometry.primitiveDatas) }
       IN  /\ lastCall.threw = ""
           /\ points # {}
              => /\ lastCall.value.boundMin =
                        [k \in 1..3 |-> SetMin({ pt[k] : pt \in points })]
                 /\ lastCall.value.boundMax =
                        [k \in 1..3 |-> SetMax({ pt[k] : pt \in points })]

----------------------------------------------------------------------------
(* gl-matrix on Float32Array vectors; NaN propagates *)

IsInfinite(a) == a = POSITIVE_INFINITY \/ a = NEGATIVE_INFINITY

fneg(a) ==
    IF a = NaN THEN NaN
    ELSE IF a = POSITIVE_INFINITY THEN NEGATIVE_INFINITY
    ELSE IF a = NEGATIVE_INFINITY THEN POSITIVE_INFINITY
    ELSE 0 - a

fadd(a, b) ==
    IF a = NaN \/ b = NaN THEN NaN
    ELSE IF IsInfinite(a) /\ IsInfinite(b) THEN (IF a = b THEN a ELSE NaN)
    ELSE IF IsInfinite(a) THEN a
    ELSE IF IsInfinite(b) THEN b
    ELSE a + b

fsub(a, b) == fadd(a, fneg(b))

fmul(a, b) ==
    IF a = NaN \/ b = NaN THEN NaN
    ELSE IF IsInfinite(a) \/ IsInfinite(b)
         THEN IF a = 0 \/ b = 0 THEN NaN
              ELSE IF (a > 0) = (b > 0) THEN POSITIVE_INFINITY ELSE NEGATIVE_INFINITY
    ELSE a * b

\* 1.0 / a, for the divisors whose quotient is an integer
reciprocal(a) ==
    CASE a = NaN -> NaN
      [] a = 0 -> POSITIVE_INFINITY
      [] a = 1 -> 1
      [] a = -1 -> -1

\* isFinite(a)
isFinite(a) == a # NaN /\ ~IsInfinite(a)

\* vec3.create()
vec3create == <<0, 0, 0>>

\* vec3.add(out, a, b)
vec3add(a, b) == [k \in 1..3 |-> fadd(a[k], b[k])]

\* vec3.subtract(out, a, b)
vec3subtract(a, b) == [k \in 1..3 |-> fsub(a[k], b[k])]

\* vec3.cross(out, a, b)
vec3cross(a, b) ==
    << fsub(fmul(a[2], b[3]), fmul(a[3], b[2])),
       fsub(fmul(a[3], b[1]), fmul(a[1], b[3])),
       fsub(fmul(a[1], b[2]), fmul(a[2], b[1])) >>

\* vec3.dot(a, b)
vec3dot(a, b) == fadd(fadd(fmul(a[1], b[1]), fmul(a[2], b[2])), fmul(a[3], b[3]))

\* vec3.scale(out, a, b)
vec3scale(a, b) == [k \in 1..3 |-> fmul(a[k], b)]

\* vec3.scaleAndAdd(out, a, b, scale)
vec3scaleAndAdd(a, b, scale) == [k \in 1..3 |-> fadd(a[k], fmul(b[k], scale))]

\* vec3.normalize(out, a): a scaled by 1/sqrt(len2) where len2 = dot(a, a) is
\* positive, and by len2 itself otherwise.  The square root is not taken:
\* the result is kept as the pair.
vec3normalize(a) == [num |-> a, len2 |-> vec3dot(a, a)]

----------------------------------------------------------------------------
(* computeNormals, one loop iteration per step.  The frame cn holds the    *)
(* locals of the call; normalList[v + 1] is the vector of vertex v.        *)

\* normalList[index] = dir3: the sum so far is overwritten
accumulateOverwrites(list, index, dir) ==
    [list EXCEPT ![index + 1] = dir]

\* vec3.add(list[index], list[index], dir)
accumulate(list, index, dir) ==
    [list EXCEPT ![index + 1] = vec3add(@, dir)]

\* lines 138-154: the allocations, up to the first test of the loop condition
computeNormalsBegin ==
    /\ cn.pc = "idle"
    /\ LET primitiveData == geometry.primitiveDatas[1]
           attributeData == find(primitiveData.attributeDatas, ATTR_POSITION)
       IN  IF attributeData = Undefined \/ IsNullish(primitiveData.indices)
           THEN cn' = [pc |-> "threw", threw |-> TypeError]
           ELSE cn' = [ pc |-> "loop",
                        positionArray |-> attributeData.data,
                        indicesArray |-> primitiveData.indices,
                        vertexCount |-> attributeData.data.length \div 3,
                        normalList |-> [v \in 1..(attributeData.data.length \div 3) |-> vec3create],
                        i |-> 0,
                        vec3Temp1 |-> vec3create, vec3Temp2 |-> vec3create,
                        vec3Temp3 |-> vec3create, vec3Temp4 |-> vec3create,
                        vec3Temp5 |-> vec3create, vec3Temp6 |-> vec3create ]
    /\ UNCHANGED <<gltf, geometry, lastCall, normalRuns, tangentRuns, earlier, ct, cm>>

\* lines 155-169: one triangle.  vec3.add on a normalList entry that does not
\* exist throws, after the additions before it have been made.
computeNormalsTriangle ==
    /\ cn.pc = "loop"
    /\ cn.i < cn.indicesArray.length
    /\ LET index1 == cn.indicesArray.elems[cn.i + 1]
           index2 == cn.indicesArray.elems[cn.i + 2]
           index3 == cn.indicesArray.elems[cn.i + 3]
           vertex1 == createVector3(cn.positionArray, index1)
           vertex2 == createVector3(cn.positionArray, index2)
           vertex3 == createVector3(cn.positionArray, index3)
           dir1 == vec3subtract(vertex2, vertex1)
           dir2 == vec3subtract(vertex3, vertex1)
           dir3 == vec3cross(dir1, dir2)
           temps == [cn EXCEPT !.vec3Temp4 = vertex1, !.vec3Temp5 = vertex2,
                               !.vec3Temp6 = vertex3, !.vec3Temp1 = dir1,
                               !.vec3Temp2 = dir2, !.vec3Temp3 = dir3]
           exists(index) == index < cn.vertexCount
           list1 == accumulate(cn.normalList, index1, dir3)
           list2 == accumulate(list1, index2, dir3)
           list3 == accumulate(list2, index3, dir3)
       IN  IF ~exists(index1)
           THEN cn' = [temps EXCEPT !.pc = "threw"]
           ELSE IF ~exists(index2)
           THEN cn' = [temps EXCEPT !.pc = "threw", !.normalList = list1]
           ELSE IF ~exists(index3)
           THEN cn' = [temps EXCEPT !.pc = "threw", !.normalList = list2]
           ELSE cn' = [temps EXCEPT !.normalList = list3, !.i = @ + 3]
    /\ UNCHANGED <<gltf, geometry, lastCall, normalRuns, tangentRuns, earlier, ct, cm>>

\* lines 172-175: the loop has ended; every entry is normalized and the list
\* returned
computeNormalsNormalize ==
    /\ cn.pc = "loop"
    /\ cn.i >= cn.indicesArray.length
    /\ cn' = [cn EXCEPT !.pc = "returned",
                        !.normalList = [v \in 1..Len(@) |-> vec3normalize(@[v])]]
    /\ UNCHANGED <<gltf, geometry, lastCall, normalRuns, tangentRuns, earlier, ct, cm>>

----------------------------------------------------------------------------
(* SpecNormals *)

\* the most triangles of an index list
MaxTriangles == 2

\* four vertices each: a planar quad, a corner of a cube, a triangle and a
\* far vertex
NormalPositionChoices ==
    { <<0, 0, 0, 1, 0, 0, 1, 1, 0, 0, 1, 0>>,
      <<0, 0, 0, 2, 0, 0, 0, 2, 0, 0, 0, 2>>,
      <<0, 0, 0, 1, 0, 0, 0, 1, 0, 5, 5, 5>> }

\* triangles: the two halves of the quad, a flipped one, one with a repeated
\* vertex, one off vertex 0, one naming a vertex that does not exist
TriangleChoices ==
    { <<0, 1, 2>>, <<0, 2, 3>>, <<2, 1, 0>>, <<0, 0, 1>>, <<1, 2, 3>>, <<0, 1, 4>> }

\* the index lists of at most n triangles taken from choices
RECURSIVE IndexLists(_, _)
IndexLists(n, choices) ==
    IF n = 0 THEN { <<>> }
    ELSE LET shorter == IndexLists(n - 1, choices)
         IN  shorter \cup { list \o t : list \in { q \in shorter : Len(q) = 3 * (n - 1) },
                                         t \in choices }

NormalsSources ==
    { [ meshes |-> << [ primitives |-> <<
            [ attributes |-> << [key |-> "POSITION",
                                 accessor |-> Accessor(1, "POSITION", positions)] >>,
              indices |-> Accessor(1, "indices", indices),
              boundingBox |-> Undefined ] >> ] >>,
        skins |-> Null ] :
        positions \in NormalPositionChoices, indices \in IndexLists(MaxTriangles, TriangleChoices) }
    \cup
    { [ meshes |-> << [ primitives |-> <<
            [ attributes |-> << [key |-> key,
                                 accessor |-> Accessor(1, key, <<0, 0, 0, 1, 0, 0, 0, 1, 0>>)] >>,
              indices |-> indices,
              boundingBox |-> Undefined ] >> ] >>,
        skins |-> Null ] :
        key \in { "POSITION", "NORMAL" },
        indices \in { Undefined, Accessor(1, "indices", <<0, 1, 2>>) } }

InitNormals ==
    /\ gltf \in NormalsSources
    /\ geometry = creatFromGLTFResult(gltf).value
    /\ lastCall = [op |-> "creatFromGLTF", threw |-> ""]
    /\ normalRuns = <<NoRuns>>
    /\ tangentRuns = <<NoRuns>>
    /\ earlier = Null
    /\ cn = Idle
    /\ ct = Idle
    /\ cm = Idle

NextNormals ==
    \/ computeNormalsBegin
    \/ computeNormalsTriangle
    \/ computeNormalsNormalize

SpecNormals == InitNormals /\ [][NextNormals]_vars

----------------------------------------------------------------------------
(* Claims checked under SpecNormals *)

\* vertex v of a flat position sequence
PointAt(elems, v) == << elems[3 * v + 1], elems[3 * v + 2], elems[3 * v + 3] >>

\* cross(v1 - v0, v2 - v0) of the triangle (i0, i1, i2), in integers
FaceOf(elems, i0, i1, i2) ==
    LET a == PointAt(elems, i0)
        e1 == [k \in 1..3 |-> PointAt(elems, i1)[k] - a[k]]
        e2 == [k \in 1..3 |-> PointAt(elems, i2)[k] - a[k]]
    IN  << e1[2] * e2[3] - e1[3] * e2[2],
           e1[3] * e2[1] - e1[1] * e2[3],
           e1[1] * e2[2] - e1[2] * e2[1] >>

\* how often vertex v occurs among the three indices of triangle t
Occurrences(indices, t, v) ==
    Cardinality({ k \in 1..3 : indices[3 * t + k] = v })

\* component k of the sum of the face vectors of the first n triangles, each
\* taken once per occurrence of v
RECURSIVE FaceSum(_, _, _, _, _)
FaceSum(elems, indices, n, v, k) ==
    IF n = 0 THEN 0
    ELSE FaceSum(elems, indices, n - 1, v, k)
         + Occurrences(indices, n - 1, v)
           * FaceOf(elems, indices[3 * n - 2], indices[3 * n - 1], indices[3 * n])[k]

SourcePositions == gltf.meshes[1].primitives[1].attributes[1].accessor.elems

SourceIndices == gltf.meshes[1].primitives[1].indices.elems

\* C9: when the triangle loop of computeNormals has ended and nothing has
\* been normalized yet, the accumulator of every vertex v is the sum of the
\* face vectors cross(v1 - v0, v2 - v0) of all triangles, once per occurrence
\* of v in the triangle (zero for a vertex of no triangle), and the position
\* and index arrays are the ones handed in.
C9_AccumulatorIsSumOfFaceVectors ==
    (cn.pc = "loop" /\ cn.i >= cn.indicesArray.length)
    => /\ \A v \in 0..(cn.vertexCount - 1) :
              cn.normalList[v + 1] =
                  [k \in 1..3 |->
                      FaceSum(SourcePositions, SourceIndices, Len(SourceIndices) \div 3, v, k)]
       /\ cn.positionArray.elems = SourcePositions
       /\ cn.indicesArray.elems = SourceIndices
       /\ geometry = creatFromGLTFResult(gltf).value

\* the loop has ended on the quad split into <<0, 1, 2>> and <<0, 2, 3>>:
\* vertices 0 and 2 hold the sum of both faces, vertex 1 one face
C9_Witness ==
    /\ cn.pc = "loop"
    /\ cn.i >= cn.indicesArray.length
    /\ cn.indicesArray.elems = <<0, 1, 2, 0, 2, 3>>
    /\ cn.positionArray.elems = <<0, 0, 0, 1, 0, 0, 1, 1, 0, 0, 1, 0>>
    /\ cn.normalList = << <<0, 0, 2>>, <<0, 0, 1>>, <<0, 0, 2>>, <<0, 0, 1>> >>

----------------------------------------------------------------------------
(* computeTangents, one loop iteration per step.  The frame ct holds the   *)
(* locals of the call; tan1[v + 1] and tan2[v + 1] are those of vertex v.  *)

\* Geometry.createVector2(array, index, out): index *= 2, then two reads
createVector2(array, index) ==
    << elementAt(array, index * 2), elementAt(array, index * 2 + 1) >>

\* vec2.subtract(out, a, b)
vec2subtract(a, b) == [k \in 1..2 |-> fsub(a[k], b[k])]

\* no triangle is skipped
skipsNothing(r) == FALSE

\* if (!isFinite(r)) continue
skipsTriangle(r) == ~isFinite(r)

\* lines 179-202: the allocations and lookups before the triangle loop
computeTangentsBegin ==
    /\ ct.pc = "idle"
    /\ LET primitiveData == geometry.primitiveDatas[1]
           position == find(primitiveData.attributeDatas, ATTR_POSITION)
           coord == find(primitiveData.attributeDatas, ATTR_TEX_COORD)
       IN  IF position = Undefined \/ coord = Undefined \/ IsNullish(primitiveData.indices)
           THEN ct' = [pc |-> "threw", threw |-> TypeError]
           ELSE ct' = [ pc |-> "loop",
                        positionArray |-> position.data,
                        coordArray |-> coord.data,
                        indicesArray |-> primitiveData.indices,
                        normalArray |-> find(primitiveData.attributeDatas, ATTR_NORMAL).data,
                        vertexCount |-> position.data.length \div 3,
                        triangleCount |-> primitiveData.indices.length \div 3,
                        tan1 |-> [v \in 1..(position.data.length \div 3) |-> vec3create],
                        tan2 |-> [v \in 1..(position.data.length \div 3) |-> vec3create],
                        i |-> 0,
                        skipped |-> 0,
                        vec2Temp1 |-> <<0, 0>>, vec2Temp2 |-> <<0, 0>>, vec2Temp3 |-> <<0, 0>>,
                        vec3Temp1 |-> vec3create, vec3Temp2 |-> vec3create,
                        vec3Temp3 |-> vec3create, vec3Temp4 |-> vec3create,
                        vec3Temp5 |-> vec3create ]
    /\ UNCHANGED <<gltf, geometry, lastCall, normalRuns, tangentRuns, earlier, cn, cm>>

\* lines 204-243: one triangle.  dir1, dir2, uv1 and uv2 are written over
\* vertex2, vertex3, texcoord2 and texcoord3, in the scratch vectors.
computeTangentsTriangle ==
    /\ ct.pc = "loop"
    /\ ct.i < ct.triangleCount
    /\ LET index1 == ct.indicesArray.elems[ct.i * 3 + 1]
           index2 == ct.indicesArray.elems[ct.i * 3 + 2]
           index3 == ct.indicesArray.elems[ct.i * 3 + 3]
           vertex1 == createVector3(ct.positionArray, index1)
           vertex2 == createVector3(ct.positionArray, index2)
           vertex3 == createVector3(ct.positionArray, index3)
           texcoord1 == createVector2(ct.coordArray, index1)
           texcoord2 == createVector2(ct.coordArray, index2)
           texcoord3 == createVector2(ct.coordArray, index3)
           dir1 == vec3subtract(vertex2, vertex1)
           dir2 == vec3subtract(vertex3, vertex1)
           uv1 == vec2subtract(texcoord2, texcoord1)
           uv2 == vec2subtract(texcoord3, texcoord1)
           r == reciprocal(fsub(fmul(uv1[1], uv2[2]), fmul(uv2[1], uv1[2])))
           read == [ct EXCEPT !.vec3Temp1 = vertex1, !.vec3Temp2 = dir1,
                              !.vec3Temp3 = dir2, !.vec2Temp1 = texcoord1,
                              !.vec2Temp2 = uv1, !.vec2Temp3 = uv2, !.i = @ + 1]
           sdir == vec3scale(vec3scaleAndAdd(vec3scale(dir1, uv2[2]), dir2, fneg(uv1[2])), r)
           tdir == vec3scale(vec3scaleAndAdd(vec3scale(dir2, uv1[1]), dir1, fneg(uv2[1])), r)
       IN  IF skipsTriangle(r)
           THEN ct' = [read EXCEPT !.skipped = @ + 1]
           ELSE ct' = [read EXCEPT
                         !.vec3Temp4 = sdir,
                         !.vec3Temp5 = tdir,
                         !.tan1 = accumulate(accumulate(accumulate(@, index1, sdir),
                                                        index2, sdir), index3, sdir),
                         !.tan2 = accumulate(accumulate(accumulate(@, index1, tdir),
                                                        index2, tdir), index3, tdir)]
    /\ UNCHANGED <<gltf, geometry, lastCall, normalRuns, tangentRuns, earlier, cn, cm>>

\* lines 248-261 for vertex v: Gram-Schmidt, then the handedness test, whose
\* sign is computed and not used.  With n the normal read, L = dot(n, n) and
\* t = tan1[v], the code normalizes t - n * dot(n, t) / L (t itself where L
\* is 0); the model normalizes that vector times L.
tangentOf(normalArray, tan1, tan2, v) ==
    LET n == createVector3(normalArray, v)
        L == vec3dot(n, n)
        t == tan1[v + 1]
        temp == IF L = 0 THEN t
                ELSE vec3subtract(vec3scale(t, L), vec3scale(n, vec3dot(n, t)))
        test == vec3dot(vec3cross(n, t), tan2[v + 1])
        w == IF test < 0 THEN 1 ELSE 1
    IN  [xyz |-> vec3normalize(temp), w |-> w]

\* lines 246-264: the loop has ended; one tangent per vertex is returned
computeTangentsVertices ==
    /\ ct.pc = "loop"
    /\ ct.i >= ct.triangleCount
    /\ ct' = [ pc |-> "returned",
               tangentList |-> [v \in 1..ct.vertexCount |->
                                   tangentOf(ct.normalArray, ct.tan1, ct.tan2, v - 1)] ]
    /\ UNCHANGED <<gltf, geometry, lastCall, normalRuns, tangentRuns, earlier, cn, cm>>

----------------------------------------------------------------------------
(* SpecTangents *)

\* the quad, and the corner of a cube
TangentPositionChoices ==
    { <<0, 0, 0, 1, 0, 0, 1, 1, 0, 0, 1, 0>>,
      <<0, 0, 0, 2, 0, 0, 0, 2, 0, 0, 0, 2>> }

\* UVs of four vertices: following the quad, all identical, mirrored in u,
\* vertices 1 and 2 collapsed
CoordChoices ==
    { <<0, 0, 1, 0, 1, 1, 0, 1>>, <<0, 0, 0, 0, 0, 0, 0, 0>>,
      <<1, 0, 0, 0, 0, 1, 1, 1>>, <<0, 0, 1, 0, 1, 0, 0, 1>> }

\* the triangles of TriangleChoices whose vertices exist
TangentTriangleChoices ==
    { t \in TriangleChoices : \A k \in 1..3 : t[k] < 4 }

TangentsSources ==
    { [ meshes |-> << [ primitives |-> <<
            [ attributes |-> << [key |-> "POSITION",
                                 accessor |-> Accessor(1, "POSITION", positions)],
                                [key |-> "NORMAL",
                                 accessor |-> Accessor(1, "NORMAL",
                                                  <<0, 0, 1, 0, 0, 2, 1, 0, 1, 0, 0, 0>>)],
                                [key |-> "TEXCOORD_0",
                                 accessor |-> Accessor(1, "TEXCOORD_0", coords)] >>,
              indices |-> Accessor(1, "indices", indices),
              boundingBox |-> Undefined ] >> ] >>,
        skins |-> Null ] :
        positions \in TangentPositionChoices, coords \in CoordChoices,
        indices \in IndexLists(MaxTriangles, TangentTriangleChoices) }
    \cup
    { [ meshes |-> << [ primitives |-> <<
            [ attributes |-> << [key |-> "POSITION",
                                 accessor |-> Accessor(1, "POSITION", <<0, 0, 0, 1, 0, 0, 0, 1, 0>>)],
                                [key |-> "NORMAL",
                                 accessor |-> Accessor(1, "NORMAL", <<0, 0, 1, 0, 0, 1, 0, 0, 1>>)],
                                [key |-> key,
                                 accessor |-> Accessor(1, key, <<0, 0, 1, 0, 0, 1>>)] >>,
              indices |-> indices,
              boundingBox |-> Undefined ] >> ] >>,
        skins |-> Null ] :
        key \in { "TEXCOORD_0", "TEXCOORD_1" },
        indices \in { Undefined, Accessor(1, "indices", <<0, 1, 2>>) } }

InitTangents ==
    /\ gltf \in TangentsSources
    /\ geometry = creatFromGLTFResult(gltf).value
    /\ lastCall = [op |-> "creatFromGLTF", threw |-> ""]
    /\ normalRuns = <<NoRuns>>
    /\ tangentRuns = <<NoRuns>>
    /\ earlier = Null
    /\ cn = Idle
    /\ ct = Idle
    /\ cm = Idle

NextTangents ==
    \/ computeTangentsBegin
    \/ computeTangentsTriangle
    \/ computeTangentsVertices

SpecTangents == InitTangents /\ [][NextTangents]_vars

----------------------------------------------------------------------------
(* Claims checked under SpecTangents *)

SourceCoords == gltf.meshes[1].primitives[1].attributes[3].accessor.elems

\* the UV of vertex v
CoordAt(elems, v) == << elems[2 * v + 1], elems[2 * v + 2] >>

\* of triangle t (0-based) of the source: its determinant and, in integers,
\* uv2.y*dir1 - uv1.y*dir2 and uv1.x*dir2 - uv2.x*dir1
TriangleTerms(t) ==
    LET i0 == SourceIndices[3 * t + 1]
        i1 == SourceIndices[3 * t + 2]
        i2 == SourceIndices[3 * t + 3]
        p0 == PointAt(SourcePositions, i0)
        d1 == [k \in 1..3 |-> PointAt(SourcePositions, i1)[k] - p0[k]]
        d2 == [k \in 1..3 |-> PointAt(SourcePositions, i2)[k] - p0[k]]
        c0 == CoordAt(SourceCoords, i0)
        u1 == [k \in 1..2 |-> CoordAt(SourceCoords, i1)[k] - c0[k]]
        u2 == [k \in 1..2 |-> CoordAt(SourceCoords, i2)[k] - c0[k]]
    IN  [ det |-> u1[1] * u2[2] - u2[1] * u1[2],
          s |-> [k \in 1..3 |-> u2[2] * d1[k] - u1[2] * d2[k]],
          t |-> [k \in 1..3 |-> u1[1] * d2[k] - u2[1] * d1[k]] ]

\* component k of what the first n triangles add to tan1 (which = "s") or
\* tan2 (which = "t") of vertex v: nothing for a zero determinant, and
\* r times the term otherwise, where r = 1/det is det itself for det = 1, -1
RECURSIVE TangentSum(_, _, _, _)
TangentSum(which, n, v, k) ==
    IF n = 0 THEN 0
    ELSE LET terms == TriangleTerms(n - 1)
             term == IF which = "s" THEN terms.s[k] ELSE terms.t[k]
         IN  TangentSum(which, n - 1, v, k)
             + (IF terms.det = 0 THEN 0
                ELSE Occurrences(SourceIndices, n - 1, v) * terms.det * term)

\* C10: after any number of triangles of computeTangents, tan1 and tan2 of
\* every vertex hold the sums of sdir = r*(uv2.y*dir1 - uv1.y*dir2) and of
\* tdir = r*(uv1.x*dir2 - uv2.x*dir1) over the triangles so far that contain
\* the vertex and have a non-zero UV determinant; a triangle whose
\* determinant is zero adds nothing and is counted as skipped.
C10_ZeroDeterminantTriangleSkipped ==
    ct.pc = "loop"
    => /\ \A v \in 0..(ct.vertexCount - 1) :
              /\ ct.tan1[v + 1] = [k \in 1..3 |-> TangentSum("s", ct.i, v, k)]
              /\ ct.tan2[v + 1] = [k \in 1..3 |-> TangentSum("t", ct.i, v, k)]
       /\ ct.skipped = Cardinality({ t \in 0..(ct.i - 1) : TriangleTerms(t).det = 0 })
       /\ \A t \in 0..(ct.i - 1) : TriangleTerms(t).det \in { -1, 0, 1 }

\* the loop has ended on a triangle with collapsed UVs between or beside one
\* that contributes: something was skipped and something was added
C10_Witness ==
    /\ ct.pc = "loop"
    /\ ct.i = 2
    /\ ct.i >= ct.triangleCount
    /\ ct.skipped = 1
    /\ TriangleTerms(0).det = 0
    /\ TriangleTerms(1).det # 0
    /\ \E v \in 1..ct.vertexCount : ct.tan1[v] # vec3create

----------------------------------------------------------------------------
(* The helpers CocosMesh imports from ./Cocos.  A scalar is kept as the    *)
(* integer its bytes spell, least significant byte first.                  *)

\* FormatInfos[format]: the components of a format, its bytes, its type
FormatInfos(format) ==
    CASE format = "R32F" -> [count |-> 1, size |-> 4, type |-> "FLOAT"]
      [] format = "RG32F" -> [count |-> 2, size |-> 8, type |-> "FLOAT"]
      [] format = "RGB32F" -> [count |-> 3, size |-> 12, type |-> "FLOAT"]
      [] format = "RG16I" -> [count |-> 2, size |-> 4, type |-> "INT"]
      [] format = "RGBA8UI" -> [count |-> 4, size |-> 4, type |-> "UINT"]

\* getOffset(attributes, attributeIndex): the bytes of the attributes before it
RECURSIVE getOffset(_, _)
getOffset(attributes, attributeIndex) ==
    IF attributeIndex = 0 THEN 0
    ELSE getOffset(attributes, attributeIndex - 1)
         + FormatInfos(attributes[attributeIndex].format).size

\* getTypedArrayConstructor(info).BYTES_PER_ELEMENT
bytesPerElement(info) == info.size \div info.count

RECURSIVE Power256(_)
Power256(k) == IF k = 0 THEN 1 ELSE 256 * Power256(k - 1)

\* the bytes [at, at + width) of the buffer, least significant first
RECURSIVE littleEndian(_, _, _)
littleEndian(arrayBuffer, at, width) ==
    IF width = 0 THEN 0
    ELSE arrayBuffer[at + 1] + 256 * littleEndian(arrayBuffer, at + 1, width - 1)

\* getReader(view, format)(offset), the view starting at byte viewOffset.
\* Four bytes are kept as the 32-bit two's complement integer of the same
\* bits, whatever the type; one and two bytes as the integer the type makes
\* of them.
reader(arrayBuffer, viewOffset, format, offset) ==
    LET info == FormatInfos(format)
        width == bytesPerElement(info)
        at == viewOffset + offset
        top == arrayBuffer[at + width]
        low == littleEndian(arrayBuffer, at, width - 1)
    IN  IF (width = 4 \/ info.type = "INT") /\ top >= 128
        THEN low + Power256(width - 1) * (top - 256)
        ELSE low + Power256(width - 1) * top

\* new (getIndexStrideCtor(stride))(arrayBuffer, offset, count)
indexArray(arrayBuffer, indexView) ==
    [k \in 1..indexView.count |->
        littleEndian(arrayBuffer, indexView.offset + (k - 1) * indexView.stride,
                     indexView.stride)]

----------------------------------------------------------------------------
(* The CocosMesh constructor, one attribute or one primitive per step.     *)
(* The frame cm holds arrayBuffer, meshMeta and this.bundles,              *)
(* this.primitives.                                                        *)

\* the vertices taken for tightly packed: the record length of the attribute
\* alone stands in for the stride
packedOffset(inputStride, iVertex, BYTES_PER_ELEMENT, iComponent, componentCount) ==
    BYTES_PER_ELEMENT * componentCount * iVertex + BYTES_PER_ELEMENT * iComponent

\* inputStride * iVertex + storage.BYTES_PER_ELEMENT * iComponent (line 66)
readOffset(inputStride, iVertex, BYTES_PER_ELEMENT, iComponent, componentCount) ==
    inputStride * iVertex + BYTES_PER_ELEMENT * iComponent

\* lines 53-68: the dense storage of attribute ia (0-based) of a bundle
decodeAttribute(arrayBuffer, vertexBundle, ia) ==
    LET viewOffset == vertexBundle.view.offset + getOffset(vertexBundle.attributes, ia)
        format == vertexBundle.attributes[ia + 1].format
        vertexCount == vertexBundle.view.count
        inputStride == vertexBundle.view.stride
        componentCount == FormatInfos(format).count
        BYTES_PER_ELEMENT == bytesPerElement(FormatInfos(format))
    IN  [ attribute |-> vertexBundle.attributes[ia + 1],
          data |-> [ k \in 1..(vertexCount * componentCount) |->
                       LET iVertex == (k - 1) \div componentCount
                           iComponent == (k - 1) % componentCount
                       IN  reader(arrayBuffer, viewOffset, format,
                                  readOffset(inputStride, iVertex, BYTES_PER_ELEMENT,
                                             iComponent, componentCount)) ] ]

\* line 49: a bundle with no attribute still gets its empty entry
constructorBundle ==
    /\ cm.pc = "bundles"
    /\ cm.iv < Len(cm.meshMeta.vertexBundles)
    /\ Len(cm.meshMeta.vertexBundles[cm.iv + 1].attributes) = 0
    /\ cm' = [cm EXCEPT !.bundles = Append(@, [attributeValues |-> <<>>]),
                        !.iv = @ + 1]
    /\ UNCHANGED <<gltf, geometry, lastCall, normalRuns, tangentRuns, earlier, cn, ct>>

\* lines 49-70: the next attribute of the bundles, in order
constructorAttribute ==
    /\ cm.pc = "bundles"
    /\ cm.iv < Len(cm.meshMeta.vertexBundles)
    /\ LET vertexBundle == cm.meshMeta.vertexBundles[cm.iv + 1]
           value == decodeAttribute(cm.arrayBuffer, vertexBundle, cm.ia)
           last == cm.ia + 1 = Len(vertexBundle.attributes)
       IN  /\ cm.ia < Len(vertexBundle.attributes)
           /\ cm' = [cm EXCEPT
                       !.bundles = IF cm.ia = 0
                                   THEN Append(@, [attributeValues |-> <<value>>])
                                   ELSE [@ EXCEPT ![cm.iv + 1].attributeValues =
                                                      Append(@, value)],
                       !.ia = IF last THEN 0 ELSE @ + 1,
                       !.iv = IF last THEN @ + 1 ELSE @]
    /\ UNCHANGED <<gltf, geometry, lastCall, normalRuns, tangentRuns, earlier, cn, ct>>

\* lines 73-78: the index array of the next primitive; once all are pushed
\* the constructor returns
constructorPrimitive ==
    /\ cm.pc = "bundles"
    /\ cm.iv >= Len(cm.meshMeta.vertexBundles)
    /\ LET n == Len(cm.primitives)
       IN  IF n < Len(cm.meshMeta.primitives)
           THEN cm' = [cm EXCEPT !.primitives =
                          Append(@, indexArray(cm.arrayBuffer,
                                               cm.meshMeta.primitives[n + 1].indexView))]
           ELSE cm' = [cm EXCEPT !.pc = "returned"]
    /\ UNCHANGED <<gltf, geometry, lastCall, normalRuns, tangentRuns, earlier, cn, ct>>

----------------------------------------------------------------------------
(* SpecMesh.  The buffer is written from per-attribute values by the       *)
(* layout of the bundles, so that the same values can be laid out with     *)
(* different strides and neighbours.                                       *)

\* the most vertices of a bundle
MaxVertices == 2

AttributeListChoices ==
    { << [name |-> ATTR_POSITION, format |-> "RGB32F"] >>,
      << [name |-> ATTR_POSITION, format |-> "RGB32F"],
         [name |-> ATTR_TEX_COORD, format |-> "RG32F"] >>,
      << [name |-> ATTR_JOINTS, format |-> "RGBA8UI"],
         [name |-> ATTR_TEX_COORD1, format |-> "RG16I"],
         [name |-> ATTR_WEIGHTS, format |-> "R32F"] >>,
      <<>> }

\* the bytes of one record of the attributes
RecordSize(attributes) == getOffset(attributes, Len(attributes))

\* the scalar of component c of vertex v of the attribute named name: width
\* bytes counting up from a base that tells the scalars apart; the last byte
\* is 128 or more for the odd bases
ScalarBytes(seed, name, v, c, width) ==
    LET base == (seed + 16 * v + 4 * c
                 + (CASE name = ATTR_POSITION -> 1 [] name = ATTR_TEX_COORD -> 50
                      [] name = ATTR_JOINTS -> 90 [] OTHER -> 131)) % 120
    IN  [k \in 1..width |-> IF k = width /\ base % 2 = 1 THEN 128 + base ELSE base + k]

\* a bundle of count vertices at byte offset, its records pad bytes apart
Bundle(attributes, offset, pad, count) ==
    [ view |-> [offset |-> offset, stride |-> RecordSize(attributes) + pad, count |-> count],
      attributes |-> attributes ]

BundleEnd(bundle) == bundle.view.offset + bundle.view.stride * bundle.view.count

MeshMetaChoices ==
    { [ vertexBundles |-> <<Bundle(a1, o1, p1, n1)>>, primitives |-> <<>> ] :
        a1 \in AttributeListChoices, o1 \in { 0, 4 }, p1 \in { 0, 4 }, n1 \in 1..MaxVertices }
    \cup
    { [ vertexBundles |-> << Bundle(a1, 0, p1, n1),
                             Bundle(a2, BundleEnd(Bundle(a1, 0, p1, n1)), 0, n1) >>,
        primitives |-> << [indexView |-> [ offset |-> BundleEnd(Bundle(a2,
                                               BundleEnd(Bundle(a1, 0, p1, n1)), 0, n1)),
                                           stride |-> s, count |-> 3 ]] >> ] :
        a1 \in AttributeListChoices, a2 \in AttributeListChoices \ { <<>> },
        p1 \in { 0, 4 }, n1 \in 1..MaxVertices, s \in { 1, 2, 4 } }

\* the length of the buffer a mesh needs
BufferLength(meshMeta) ==
    LET bundles == meshMeta.vertexBundles
        ends == { BundleEnd(bundles[b]) : b \in 1..Len(bundles) }
                \cup { meshMeta.primitives[q].indexView.offset
                       + meshMeta.primitives[q].indexView.stride
                         * meshMeta.primitives[q].indexView.count :
                         q \in 1..Len(meshMeta.primitives) }
    IN  SetMax(ends \cup { 0 })

\* where the buffer of a mesh holds what: <<position (0-based), byte>> for
\* every byte of every scalar of every attribute, and of every index (index
\* j is j, in stride bytes)
Writes(meshMeta, seed) ==
    LET bundles == meshMeta.vertexBundles
        widthOf(b, a) == bytesPerElement(FormatInfos(bundles[b].attributes[a].format))
    IN  UNION { UNION { UNION { UNION {
            { << bundles[b].view.offset + getOffset(bundles[b].attributes, a - 1)
                 + v * bundles[b].view.stride + c * widthOf(b, a) + (k - 1),
                 ScalarBytes(seed + 7 * b, bundles[b].attributes[a].name, v, c,
                             widthOf(b, a))[k] >> : k \in 1..widthOf(b, a) } :
            c \in 0..(FormatInfos(bundles[b].attributes[a].format).count - 1) } :
            v \in 0..(bundles[b].view.count - 1) } :
            a \in 1..Len(bundles[b].attributes) } :
            b \in 1..Len(bundles) }
        \cup
        UNION { UNION {
            { << meshMeta.primitives[q].indexView.offset
                 + j * meshMeta.primitives[q].indexView.stride + (k - 1),
                 IF k = 1 THEN j ELSE 0 >> : k \in 1..meshMeta.primitives[q].indexView.stride } :
            j \in 0..(meshMeta.primitives[q].indexView.count - 1) } :
            q \in 1..Len(meshMeta.primitives) }

\* the buffer of a mesh: what Writes puts there, and 255 elsewhere
BufferOf(meshMeta, seed) ==
    LET writes == Writes(meshMeta, seed)
        written == { w[1] : w \in writes }
    IN  [ at \in 1..BufferLength(meshMeta) |->
            IF at - 1 \in written
            THEN (CHOOSE w \in writes : w[1] = at - 1)[2]
            ELSE 255 ]

InitMesh ==
    /\ gltf = Null
    /\ geometry = Null
    /\ lastCall = [op |-> "none"]
    /\ normalRuns = <<>>
    /\ tangentRuns = <<>>
    /\ earlier = Null
    /\ cn = Idle
    /\ ct = Idle
    /\ \E meshMeta \in MeshMetaChoices, seed \in { 0, 33 } :
           cm = [ pc |-> "bundles",
                  seed |-> seed,
                  meshMeta |-> meshMeta,
                  arrayBuffer |-> BufferOf(meshMeta, seed),
                  iv |-> 0, ia |-> 0,
                  bundles |-> <<>>, primitives |-> <<>> ]

NextMesh ==
    \/ constructorBundle
    \/ constructorAttribute
    \/ constructorPrimitive

SpecMesh == InitMesh /\ [][NextMesh]_vars

----------------------------------------------------------------------------
(* Claims checked under SpecMesh *)

\* the integer a scalar's bytes spell: the last byte counts as signed for a
\* signed format and for a scalar of four bytes
ScalarOf(bytes, type) ==
    LET n == Len(bytes)
        signed == (n = 4 \/ type = "INT") /\ bytes[n] >= 128
    IN  SeqSum([k \in 1..n |->
            (IF k = n /\ signed THEN bytes[k] - 256 ELSE bytes[k]) * Power256(k - 1)])

\* the sum of the sizes of the attributes before attribute a (1-based)
AttrOffset(attributes, a) ==
    SeqSum([j \in 1..(a - 1) |-> FormatInfos(attributes[j].format).size])

\* C8: for every decoded attribute of every bundle, the output holds
\* vertexCount * componentCount elements, and element v*componentCount + c is
\* the scalar at source byte byteOffset + attrOffset + v*stride +
\* c*componentSize; it is the scalar the buffer was written from, whatever
\* the stride and the other attributes of the record.
C8_DenseOutputReadsStridedSource ==
    cm.pc # "idle"
    => \A b \in 1..Len(cm.bundles) :
         \A a \in 1..Len(cm.bundles[b].attributeValues) :
           LET vertexBundle == cm.meshMeta.vertexBundles[b]
               info == FormatInfos(vertexBundle.attributes[a].format)
               componentSize == info.size \div info.count
               data == cm.bundles[b].attributeValues[a].data
           IN  /\ cm.bundles[b].attributeValues[a].attribute = vertexBundle.attributes[a]
               /\ Len(data) = vertexBundle.view.count * info.count
               /\ \A v \in 0..(vertexBundle.view.count - 1), c \in 0..(info.count - 1) :
                      LET at == vertexBundle.view.offset
                                + AttrOffset(vertexBundle.attributes, a)
                                + v * vertexBundle.view.stride + c * componentSize
                      IN  /\ data[v * info.count + c + 1] =
                                 ScalarOf([k \in 1..componentSize |-> cm.arrayBuffer[at + k]],
                                          info.type)
                          /\ data[v * info.count + c + 1] =
                                 ScalarOf(ScalarBytes(cm.seed + 7 * b,
                                              vertexBundle.attributes[a].name, v, c,
                                              componentSize), info.type)

\* both bundles of a mesh are decoded: two vertices, records with padding,
\* three attributes interleaved in the first
C8_Witness ==
    /\ cm.pc = "returned"
    /\ Len(cm.bundles) = 2
    /\ cm.meshMeta.vertexBundles[1].view.count = 2
    /\ cm.meshMeta.vertexBundles[1].view.stride > RecordSize(cm.meshMeta.vertexBundles[1].attributes)
    /\ Len(cm.bundles[1].attributeValues) = 3
    /\ Len(cm.bundles[1].attributeValues[2].data) = 4
    /\ \E k \in 1..4 : cm.bundles[1].attributeValues[2].data[k] < 0

====
